---------------------------- MODULE Spec2Model ----------------------------
(***************************************************************************)
(* A model of package ssha1 (github.com/kristinjeanna/crypto/ssha1): the   *)
(* salted SHA-1 digest  H(message ++ salt) ++ salt,  its constructors, the *)
(* hash.Hash methods of type digest, and the helper functions Sum and      *)
(* Validate.                                                               *)
(*                                                                         *)
(* Go values are modelled as follows.                                      *)
(*   - A byte is a number in 0..255, a []byte value a sequence of bytes.   *)
(*   - d.internal is a Go slice over a backing array: the record           *)
(*     [arr, len], arr being the whole backing array (Len(arr) is the      *)
(*     capacity) and len the slice's length.  append writes in place when  *)
(*     the capacity suffices, and the array is shared by every slice made  *)
(*     from it, which is what digest.Sum relies on.                        *)
(*   - A []byte argument that may be nil is the record [isNil, b].         *)
(*   - A Go string is a sequence of one-character strings.                 *)
(*   - error values are their messages; NoErr is the nil error.            *)
(***************************************************************************)
EXTENDS Integers, Sequences, FiniteSets, TLC

(***************************************************************************)
(* Bounds of the model.                                                    *)
(***************************************************************************)
\* longest argument of one Write call
MaxWrite == 2
\* Write is offered while the accumulator stays within this many bytes
MaxAcc == 2
\* longest plaintext given to Sum and longest sample given to Validate
MaxData == 1
\* longest caller-supplied salt, and largest size given to NewForSaltSize
MaxSalt == 2
\* most spare capacity the runtime leaves behind the elements when append
\* has to allocate a new backing array
MaxSpare == 1

(***************************************************************************)
(* Program constants.                                                      *)
(***************************************************************************)
DefaultNumSaltBytes == 20
MinSaltBytes == 1
\* sha1.BlockSize
BlockSize == 64
\* sha1.Size
Sha1Size == 20

outputFmtPrefix == <<"{", "S", "S", "H", "A", "}">>
errMsgSaltTooShort == "invalid salt length, must be at least 1 byte"
errMsgSliceTooShortSha1 == "slice too short for a SHA-1 hash"
errMsgSliceTooShortSsha1 == "slice too short to be a SSHA1 hash"
\* the error rand.Read returns when the random source fails
errRandRead == "crypto/rand: read failed"
NoErr == "nil"

(***************************************************************************)
(* Inputs: the byte values callers and the random source use, and the      *)
(* byte sequences built from them.                                         *)
(***************************************************************************)

ByteVals == {97, 255}

SeqsUpTo(S, n) == UNION {[1..k -> S] : k \in 0..n}

Zeros(n) == [i \in 1..n |-> 0]

\* a []byte argument: nil, or a (possibly empty) slice holding b
NilSlice == [isNil |-> TRUE, b |-> <<>>]
SliceOf(b) == [isNil |-> FALSE, b |-> b]
GoLen(s) == Len(s.b)

(***************************************************************************)
(* Go slices and append.                                                   *)
(***************************************************************************)
\* make([]byte, 0)
EmptySlice == [arr |-> <<>>, len |-> 0]

\* the elements of slice s
SliceBytes(s) == SubSeq(s.arr, 1, s.len)

\* cap(s)
Cap(s) == Len(s.arr)

\* append(s, p...): [slice, inplace].  With enough capacity the elements
\* are written into s's own backing array behind s.len (inplace: every
\* slice over that array now sees them); otherwise a new array is
\* allocated, with `spare` zeroed elements of capacity to spare.
GoAppend(s, p, spare) ==
    IF s.len + Len(p) <= Cap(s)
    THEN [slice |-> [arr |-> [i \in 1..Cap(s) |->
                                 IF i > s.len /\ i <= s.len + Len(p)
                                 THEN p[i - s.len] ELSE s.arr[i]],
                     len |-> s.len + Len(p)],
          inplace |-> TRUE]
    ELSE [slice |-> [arr |-> SliceBytes(s) \o p \o Zeros(spare),
                     len |-> s.len + Len(p)],
          inplace |-> FALSE]

(***************************************************************************)
(* The external collaborators.                                             *)
(***************************************************************************)
\* the sum of the bytes of m at positions k, k+19, k+38, ...
RECURSIVE Lane(_, _)
Lane(m, k) == IF k > Len(m) THEN 0 ELSE m[k] + Lane(m, k + Sha1Size - 1)

\* sha1.Sum: a deterministic function from byte sequences to Sha1Size
\* bytes.  SHA-1 itself is a black box to the package; it is modelled by a
\* function that is collision-free on messages shorter than Sha1Size: the
\* first byte is the length, byte i+1 an invertible scrambling of m[i].
sha1Sum(m) ==
    [i \in 1..Sha1Size |->
        IF i = 1 THEN Len(m) % 256
        ELSE (Lane(m, i - 1) * 7 + i * 37 + Len(m)) % 256]

\* what the random source does at one call of rand.Read: it fails, or it
\* yields the bytes a, b, a, b, ...
RandOutcomes ==
    {[fail |-> TRUE, a |-> 0, b |-> 0]}
    \cup {[fail |-> FALSE, a |-> x, b |-> y] : x \in ByteVals, y \in ByteVals}

\* rand.Read(b) for len(b) = n, the random source doing rnd: fills b and
\* returns no error, or fails
randRead(n, rnd) ==
    IF rnd.fail THEN [bytes |-> Zeros(n), err |-> errRandRead]
    ELSE [bytes |-> [i \in 1..n |-> IF i % 2 = 1 THEN rnd.a ELSE rnd.b],
          err |-> NoErr]

(***************************************************************************)
(* type digest and its methods.  A method that changes *d returns the new  *)
(* value of d, beside its result if it has one.                            *)
(***************************************************************************)
\* the nil crypto.Hash a failed constructor returns
NilDigest == [live |-> FALSE, internal |-> EmptySlice, salt |-> <<>>]

\* new(digest)
NewDigest == [live |-> TRUE, internal |-> [arr |-> <<>>, len |-> 0], salt |-> <<>>]

\* func (d *digest) Size() int
digestSize(d) == Sha1Size + Len(d.salt)

\* func (d *digest) BlockSize() int
digestBlockSize(d) == BlockSize

\* Reset cutting the slice to its first byte: d.internal = d.internal[:1]
\* (where there is one) in place of a new empty slice
digestReset_keepsOne(d) ==
    [d EXCEPT !.internal.len = IF @ >= 1 THEN 1 ELSE 0]

\* func (d *digest) Reset()
digestReset(d) == [d EXCEPT !.internal = EmptySlice]

\* Write assigning where the code appends: d.internal = p
digestWrite_assigns(d, p, spare) ==
    [d |-> [d EXCEPT !.internal = [arr |-> p, len |-> Len(p)]],
     n |-> Len(p),
     err |-> NoErr]

\* func (d *digest) Write(p []byte) (int, error)
digestWrite(d, p, spare) ==
    [d |-> [d EXCEPT !.internal = GoAppend(d.internal, p, spare).slice],
     n |-> Len(p),
     err |-> NoErr]

\* Sum hashing the salt followed by the accumulated bytes
digestSum_saltFirst(d, in, spare) ==
    [d |-> d, out |-> in \o (sha1Sum(d.salt \o SliceBytes(d.internal)) \o d.salt)]

\* Sum keeping the slice it appended the salt to: d.internal =
\* append(d.internal, d.salt...)
digestSum_keepsTmp(d, in, spare) ==
    LET app == GoAppend(d.internal, d.salt, spare)
        sum == sha1Sum(SliceBytes(app.slice))
    IN  [d |-> [d EXCEPT !.internal = app.slice],
         out |-> in \o (sum \o d.salt)]

\* Sum hashing the salt alone
digestSum_saltOnly(d, in, spare) ==
    [d |-> d, out |-> in \o (sha1Sum(d.salt) \o d.salt)]

\* func (d *digest) Sum(in []byte) []byte.  tmp := append(d.internal,
\* d.salt...) may write the salt into the spare capacity of d.internal's
\* backing array; d.internal itself (its length) is not assigned.
digestSum(d, in, spare) ==
    LET app == GoAppend(d.internal, d.salt, spare)
        tmp == SliceBytes(app.slice)
        sum == sha1Sum(tmp)
    IN  [d |-> IF app.inplace
               THEN [d EXCEPT !.internal.arr = app.slice.arr]
               ELSE d,
         out |-> in \o (sum \o d.salt)]


(***************************************************************************)
(* Text encodings (encoding/hex, encoding/base64).                         *)
(***************************************************************************)
\* hex.EncodeToString's table, "0123456789abcdef"
hextable ==
    <<"0", "1", "2", "3", "4", "5", "6", "7",
      "8", "9", "a", "b", "c", "d", "e", "f">>

\* hex.EncodeToString(b): two characters per byte, high nibble first
hexEncodeToString(b) ==
    [j \in 1..(2 * Len(b)) |->
        LET v == b[(j + 1) \div 2]
        IN  IF j % 2 = 1 THEN hextable[(v \div 16) + 1]
            ELSE hextable[(v % 16) + 1]]

\* base64.StdEncoding's alphabet
encodeStd ==
    <<"A", "B", "C", "D", "E", "F", "G", "H", "I", "J", "K", "L", "M",
      "N", "O", "P", "Q", "R", "S", "T", "U", "V", "W", "X", "Y", "Z",
      "a", "b", "c", "d", "e", "f", "g", "h", "i", "j", "k", "l", "m",
      "n", "o", "p", "q", "r", "s", "t", "u", "v", "w", "x", "y", "z",
      "0", "1", "2", "3", "4", "5", "6", "7", "8", "9", "+", "/">>

\* base64.StdPadding
StdPadding == "="

\* the 24-bit value of the g-th (from 0) group of three bytes of b, missing
\* bytes of the last group read as 0
Quantum(b, g) ==
    LET at(k) == IF k <= Len(b) THEN b[k] ELSE 0
    IN  at(3 * g + 1) * 65536 + at(3 * g + 2) * 256 + at(3 * g + 3)

\* 64^k
Pow64(k) == CASE k = 0 -> 1 [] k = 1 -> 64 [] k = 2 -> 4096 [] OTHER -> 262144

\* base64.StdEncoding.EncodeToString(b): four characters per group of
\* three bytes; a last group of one byte gives two characters and "==",
\* of two bytes three characters and "="
base64EncodeToString(b) ==
    [j \in 1..(4 * ((Len(b) + 2) \div 3)) |->
        LET g == (j - 1) \div 4
            pos == (j - 1) % 4
            have == Len(b) - 3 * g
        IN  IF pos > have THEN StdPadding
            ELSE encodeStd[((Quantum(b, g) \div Pow64(3 - pos)) % 64) + 1]]

\* the number of "=" that end t
RECURSIVE Padding(_)
Padding(t) ==
    IF t # <<>> /\ t[Len(t)] = StdPadding
    THEN 1 + Padding(SubSeq(t, 1, Len(t) - 1))
    ELSE 0

\* String encoding without padding (base64.RawStdEncoding)
digestString_raw(d, spare) ==
    LET s == digestSum(d, <<>>, spare)
        text == base64EncodeToString(s.out)
    IN  [d |-> s.d,
         out |-> outputFmtPrefix \o SubSeq(text, 1, Len(text) - Padding(text))]

\* func (d *digest) String() string
digestString(d, spare) ==
    LET s == digestSum(d, <<>>, spare)
    IN  [d |-> s.d, out |-> outputFmtPrefix \o base64EncodeToString(s.out)]

\* func (d *digest) HexString() string
digestHexString(d, spare) ==
    LET s == digestSum(d, <<>>, spare)
    IN  [d |-> s.d, out |-> hexEncodeToString(s.out)]

(***************************************************************************)
(* The constructors.  Each returns [d, err]; d is NilDigest on an error.   *)
(***************************************************************************)
\* func New() (crypto.Hash, error)
New(rnd) ==
    LET d0 == digestReset(NewDigest)
        r == randRead(DefaultNumSaltBytes, rnd)
    IN  IF r.err # NoErr THEN [d |-> NilDigest, err |-> r.err]
        ELSE [d |-> [d0 EXCEPT !.salt = r.bytes], err |-> NoErr]

\* NewWithSalt without its check of the salt's length
NewWithSalt_unchecked(salt) ==
    [d |-> [digestReset(NewDigest) EXCEPT !.salt = salt.b], err |-> NoErr]

\* func NewWithSalt(salt []byte) (crypto.Hash, error)
NewWithSalt(salt) ==
    IF GoLen(salt) < MinSaltBytes
    THEN [d |-> NilDigest, err |-> errMsgSaltTooShort]
    ELSE [d |-> [digestReset(NewDigest) EXCEPT !.salt = salt.b], err |-> NoErr]

\* func NewForSaltSize(numSaltBytes int) (crypto.Hash, error)
NewForSaltSize(numSaltBytes, rnd) ==
    IF numSaltBytes < MinSaltBytes
    THEN [d |-> NilDigest, err |-> errMsgSaltTooShort]
    ELSE LET d0 == digestReset(NewDigest)
             r == randRead(numSaltBytes, rnd)
         IN  IF r.err # NoErr THEN [d |-> NilDigest, err |-> r.err]
             ELSE [d |-> [d0 EXCEPT !.salt = r.bytes], err |-> NoErr]

(***************************************************************************)
(* The helper functions.  spare is the spare capacity the runtime leaves   *)
(* when an append of the instance they make allocates.                     *)
(***************************************************************************)
\* Sum testing len(salt) == 0 where the code tests salt == nil
Sum_lenZero(data, salt, rnd, spare) ==
    LET c == IF GoLen(salt) = 0 THEN New(rnd) ELSE NewWithSalt(salt)
    IN  IF c.err # NoErr
        THEN [out |-> <<>>, isNil |-> TRUE, err |-> c.err, salt |-> <<>>]
        ELSE LET w == digestWrite(c.d, data, spare)
             IN  [out |-> digestSum(w.d, <<>>, spare).out, isNil |-> FALSE,
                  err |-> NoErr, salt |-> c.d.salt]

\* func Sum(data, salt []byte) ([]byte, error): [out, isNil, err, salt],
\* salt being the salt of the instance it made (a ghost of the result)
Sum(data, salt, rnd, spare) ==
    LET c == IF salt.isNil THEN New(rnd) ELSE NewWithSalt(salt)
    IN  IF c.err # NoErr
        THEN [out |-> <<>>, isNil |-> TRUE, err |-> c.err, salt |-> <<>>]
        ELSE LET w == digestWrite(c.d, data, spare)
             IN  [out |-> digestSum(w.d, <<>>, spare).out, isNil |-> FALSE,
                  err |-> NoErr, salt |-> c.d.salt]

\* Validate taking the salt from the front of the combined digest
Validate_saltFromFront(ssha1Hash, sample, spare) ==
    LET length == Len(ssha1Hash)
        saltSize == length - Sha1Size
    IN  IF length < Sha1Size
        THEN [ok |-> FALSE, err |-> errMsgSliceTooShortSha1]
        ELSE IF saltSize = 0
        THEN [ok |-> FALSE, err |-> errMsgSliceTooShortSsha1]
        ELSE LET salt == SubSeq(ssha1Hash, 1, saltSize)
                 c == NewWithSalt(SliceOf(salt))
             IN  IF c.err # NoErr THEN [ok |-> FALSE, err |-> c.err]
                 ELSE LET w == digestWrite(c.d, sample, spare)
                          result == digestSum(w.d, <<>>, spare).out
                      IN  [ok |-> ssha1Hash = result, err |-> NoErr]

\* Validate comparing the lengths with <= in its first check
Validate_offByOne(ssha1Hash, sample, spare) ==
    LET length == Len(ssha1Hash)
        saltSize == length - Sha1Size
    IN  IF length <= Sha1Size
        THEN [ok |-> FALSE, err |-> errMsgSliceTooShortSha1]
        ELSE LET salt == SubSeq(ssha1Hash, length - saltSize + 1, length)
                 c == NewWithSalt(SliceOf(salt))
             IN  IF c.err # NoErr THEN [ok |-> FALSE, err |-> c.err]
                 ELSE LET w == digestWrite(c.d, sample, spare)
                          result == digestSum(w.d, <<>>, spare).out
                      IN  [ok |-> ssha1Hash = result, err |-> NoErr]

\* func Validate(ssha1Hash, sample []byte) (bool, error): [ok, err]
Validate(ssha1Hash, sample, spare) ==
    LET length == Len(ssha1Hash)
        saltSize == length - Sha1Size
    IN  IF length < Sha1Size
        THEN [ok |-> FALSE, err |-> errMsgSliceTooShortSha1]
        ELSE IF saltSize = 0
        THEN [ok |-> FALSE, err |-> errMsgSliceTooShortSsha1]
        ELSE LET salt == SubSeq(ssha1Hash, length - saltSize + 1, length)
                 c == NewWithSalt(SliceOf(salt))
             IN  IF c.err # NoErr THEN [ok |-> FALSE, err |-> c.err]
                 ELSE LET w == digestWrite(c.d, sample, spare)
                          result == digestSum(w.d, <<>>, spare).out
                      IN  [ok |-> ssha1Hash = result, err |-> NoErr]

(***************************************************************************)
(* The state: one caller's view of the package.                            *)
(*   d        the crypto.Hash the caller got from the last constructor     *)
(*            call (NilDigest before the first call and after a failed one)*)
(*   res      what the last call was and what it returned                  *)
(*   inp      the arguments the caller gives to the helper functions Sum   *)
(*            and Validate, fixed when the caller starts                   *)
(*   held     the combined digest the caller keeps from the last           *)
(*            successful call of Sum, with the plaintext and salt given    *)
(*            and the salt of the instance Sum made                        *)
(*   written  history: the bytes passed to d.Write since d was made or     *)
(*            last Reset, in order                                         *)
(*   salt0    history: the salt d had when its constructor returned        *)
(*   dirty    history: d was Reset after bytes had been written to it      *)
(***************************************************************************)
VARIABLES d, res, inp, held, written, salt0, dirty

vars == <<d, res, inp, held, written, salt0, dirty>>

\* what a call returned: op the function or method; arg and arg2 its
\* arguments; n, out, ok, err, isNil its results (those it does not have
\* keep the values below)
Result(op) ==
    [op |-> op, arg |-> <<>>, arg2 |-> NilSlice, n |-> 0, out |-> <<>>,
     ok |-> FALSE, err |-> NoErr, isNil |-> FALSE]

NoHeld == [has |-> FALSE, sum |-> <<>>, data |-> <<>>, salt |-> NilSlice,
           used |-> <<>>]

\* the inputs callers give
Payloads == SeqsUpTo(ByteVals, MaxWrite)
Plaintexts == SeqsUpTo(ByteVals, MaxData)
SaltArgs == {NilSlice} \cup {SliceOf(b) : b \in SeqsUpTo(ByteVals, MaxSalt)}
SaltSizes == (0 - 1)..MaxSalt
SumPrefixes == {<<>>, <<97>>}
Spares == 0..MaxSpare

\* how the caller makes the combined digest it hands to Validate: the
\* digest it holds, whole; its first k bytes; all but its last byte; the
\* digest with byte k, or its last byte, changed; or k bytes that never
\* were a digest
HashModes ==
    {[kind |-> "whole", k |-> 0], [kind |-> "dropLast", k |-> 0],
     [kind |-> "tamperLast", k |-> 0]}
    \cup {[kind |-> "cut", k |-> k] :
             k \in {0, Sha1Size - 1, Sha1Size, Sha1Size + 1}}
    \cup {[kind |-> "tamper", k |-> k] : k \in {1, Sha1Size}}
    \cup {[kind |-> "stray", k |-> k] :
             k \in {0, Sha1Size - 1, Sha1Size, Sha1Size + 1}}

HelperInputs ==
    {[data |-> p, salt |-> s, rnd |-> r, sample |-> q, mode |-> m] :
        p \in Plaintexts, s \in SaltArgs, r \in RandOutcomes,
        q \in Plaintexts, m \in HashModes}

\* a caller that calls neither helper function; its random source works
NoInput ==
    [data |-> <<>>, salt |-> NilSlice,
     rnd |-> [fail |-> FALSE, a |-> 97, b |-> 97], sample |-> <<>>,
     mode |-> [kind |-> "whole", k |-> 0]]

InitRest ==
    /\ d = NilDigest
    /\ res = Result("none")
    /\ held = NoHeld
    /\ written = <<>>
    /\ salt0 = <<>>
    /\ dirty = FALSE

\* a caller of the constructors and methods
Init == inp = NoInput /\ InitRest

\* a caller of the helper functions.  Sum reads the random source only
\* when the salt is nil: with another salt one outcome, a working source,
\* stands for all
InitFn ==
    /\ inp \in {i \in HelperInputs :
                   ~i.salt.isNil => i.rnd = NoInput.rnd}
    /\ InitRest

\* a caller of Sum and of the constructors
InitNew ==
    /\ inp \in {i \in HelperInputs :
                   /\ ~i.salt.isNil => i.rnd = NoInput.rnd
                   /\ i.sample = <<>>
                   /\ i.mode = NoInput.mode}
    /\ InitRest

\* d, err := New(); the caller's d becomes what the constructor returned
DoNew ==
    /\ \E rnd \in RandOutcomes :
        LET c == New(rnd)
        IN  /\ d' = c.d
            /\ res' = [Result("New") EXCEPT !.err = c.err, !.isNil = ~c.d.live]
            /\ salt0' = c.d.salt
    /\ written' = <<>>
    /\ dirty' = FALSE
    /\ UNCHANGED <<inp, held>>

\* d, err := NewWithSalt(salt)
DoNewWithSalt ==
    /\ \E salt \in SaltArgs :
        LET c == NewWithSalt(salt)
        IN  /\ d' = c.d
            /\ res' = [Result("NewWithSalt") EXCEPT !.arg2 = salt,
                                                    !.err = c.err,
                                                    !.isNil = ~c.d.live]
            /\ salt0' = c.d.salt
    /\ written' = <<>>
    /\ dirty' = FALSE
    /\ UNCHANGED <<inp, held>>

\* d, err := NewForSaltSize(n)
DoNewForSaltSize ==
    /\ \E n \in SaltSizes, rnd \in RandOutcomes :
        LET c == NewForSaltSize(n, rnd)
        IN  /\ d' = c.d
            /\ res' = [Result("NewForSaltSize") EXCEPT !.n = n, !.err = c.err,
                                                       !.isNil = ~c.d.live]
            /\ salt0' = c.d.salt
    /\ written' = <<>>
    /\ dirty' = FALSE
    /\ UNCHANGED <<inp, held>>

\* n, err := d.Write(p)
DoWrite ==
    /\ d.live
    /\ \E p \in Payloads, spare \in Spares :
        /\ d.internal.len + Len(p) <= MaxAcc
        /\ LET w == digestWrite(d, p, spare)
           IN  /\ d' = w.d
               /\ res' = [Result("Write") EXCEPT !.arg = p, !.n = w.n,
                                                 !.err = w.err]
        /\ written' = written \o p
    /\ UNCHANGED <<inp, held, salt0, dirty>>

\* d.Reset()
DoReset ==
    /\ d.live
    /\ d' = digestReset(d)
    /\ res' = Result("Reset")
    /\ written' = <<>>
    /\ dirty' = (dirty \/ written # <<>>)
    /\ UNCHANGED <<inp, held, salt0>>

\* out := d.Sum(in)
DoSum ==
    /\ d.live
    /\ \E in \in SumPrefixes, spare \in Spares :
        LET s == digestSum(d, in, spare)
        IN  /\ d' = s.d
            /\ res' = [Result("Sum") EXCEPT !.arg = in, !.out = s.out]
    /\ UNCHANGED <<inp, held, written, salt0, dirty>>

\* out := d.String()
DoString ==
    /\ d.live
    /\ \E spare \in Spares :
        LET s == digestString(d, spare)
        IN  /\ d' = s.d
            /\ res' = [Result("String") EXCEPT !.out = s.out]
    /\ UNCHANGED <<inp, held, written, salt0, dirty>>

\* out := d.HexString()
DoHexString ==
    /\ d.live
    /\ \E spare \in Spares :
        LET s == digestHexString(d, spare)
        IN  /\ d' = s.d
            /\ res' = [Result("HexString") EXCEPT !.out = s.out]
    /\ UNCHANGED <<inp, held, written, salt0, dirty>>

\* n := d.Size()
DoSize ==
    /\ d.live
    /\ res' = [Result("Size") EXCEPT !.n = digestSize(d)]
    /\ UNCHANGED <<d, inp, held, written, salt0, dirty>>

\* n := d.BlockSize()
DoBlockSize ==
    /\ d.live
    /\ res' = [Result("BlockSize") EXCEPT !.n = digestBlockSize(d)]
    /\ UNCHANGED <<d, inp, held, written, salt0, dirty>>

\* out, err := Sum(inp.data, inp.salt); the caller keeps a digest it got
DoPkgSum ==
    /\ \E spare \in Spares :
        LET r == Sum(inp.data, inp.salt, inp.rnd, spare)
        IN  /\ res' = [Result("PkgSum") EXCEPT !.arg = inp.data,
                                               !.arg2 = inp.salt,
                                               !.out = r.out, !.err = r.err,
                                               !.isNil = r.isNil]
            /\ held' = IF r.err = NoErr
                       THEN [has |-> TRUE, sum |-> r.out, data |-> inp.data,
                             salt |-> inp.salt, used |-> r.salt]
                       ELSE held
    /\ UNCHANGED <<d, inp, written, salt0, dirty>>

\* s with its k-th byte changed
Tamper(s, k) == [s EXCEPT ![k] = (@ + 1) % 256]

\* whether the caller can make a combined digest the way m says
HashArgReady(m) == m.kind = "stray" \/ held.has

\* the combined digest the caller makes the way m says
HashArg(m) ==
    CASE m.kind = "stray" -> [i \in 1..m.k |-> 97]
      [] m.kind = "whole" -> held.sum
      [] m.kind = "cut" -> SubSeq(held.sum, 1, m.k)
      [] m.kind = "dropLast" -> SubSeq(held.sum, 1, Len(held.sum) - 1)
      [] m.kind = "tamper" -> Tamper(held.sum, m.k)
      [] m.kind = "tamperLast" -> Tamper(held.sum, Len(held.sum))

\* ok, err := Validate(ssha1Hash, inp.sample)
DoValidate ==
    /\ HashArgReady(inp.mode)
    /\ \E spare \in Spares :
        LET h == HashArg(inp.mode)
            v == Validate(h, inp.sample, spare)
        IN  res' = [Result("Validate") EXCEPT !.arg = inp.sample,
                                              !.arg2 = SliceOf(h),
                                              !.ok = v.ok, !.err = v.err]
    /\ UNCHANGED <<d, inp, held, written, salt0, dirty>>

\* the life of one digest instance
Next ==
    \/ DoNew
    \/ DoNewWithSalt
    \/ DoNewForSaltSize
    \/ DoWrite
    \/ DoReset
    \/ DoSum
    \/ DoString
    \/ DoHexString
    \/ DoSize
    \/ DoBlockSize

Spec == Init /\ [][Next]_vars

\* the helper functions
NextFn ==
    \/ DoPkgSum
    \/ DoValidate

SpecFn == InitFn /\ [][NextFn]_vars

\* everything that makes a digest instance
NextNew ==
    \/ DoNew
    \/ DoNewWithSalt
    \/ DoNewForSaltSize
    \/ DoPkgSum

SpecNew == InitNew /\ [][NextNew]_vars

(***************************************************************************)
(* What the properties are stated with.                                    *)
(***************************************************************************)
\* the combined digest of accumulated bytes a and salt s: the SHA-1 of a
\* followed by s, then s
Combined(a, s) == sha1Sum(a \o s) \o s

\* the combined digest instance x returns now, whatever the runtime does
\* at the append; <<>> if that depends on the runtime
SumNow(x) ==
    LET outs == {digestSum(x, <<>>, spare).out : spare \in Spares}
    IN  IF Cardinality(outs) = 1 THEN CHOOSE o \in outs : TRUE ELSE <<>>

\* a new instance with salt s to which a was written in one Write call
WrittenOnce(a, s) == digestWrite(NewWithSalt(SliceOf(s)).d, a, 0).d

\* the position of character c in alphabet t, from 0; Len(t) if it has none
IndexIn(t, c) ==
    IF \E k \in 1..Len(t) : t[k] = c
    THEN (CHOOSE k \in 1..Len(t) : t[k] = c) - 1
    ELSE Len(t)

\* hex.DecodeString for lower-case hexadecimal text of even length
HexDecode(t) ==
    [i \in 1..(Len(t) \div 2) |->
        IndexIn(hextable, t[2 * i - 1]) * 16 + IndexIn(hextable, t[2 * i])]

\* base64.StdEncoding.DecodeString for padded text: each four characters
\* give three bytes, less one byte for each "=" at the end
Base64Decode(t) ==
    LET val(k) == IF t[k] = StdPadding THEN 0 ELSE IndexIn(encodeStd, t[k])
        quantum(g) == val(4 * g + 1) * 262144 + val(4 * g + 2) * 4096
                      + val(4 * g + 3) * 64 + val(4 * g + 4)
    IN  [i \in 1..(3 * (Len(t) \div 4) - Padding(t)) |->
            LET g == (i - 1) \div 3
                pos == (i - 1) % 3
            IN  (quantum(g) \div (IF pos = 0 THEN 65536
                                  ELSE IF pos = 1 THEN 256 ELSE 1)) % 256]

Reads == {"Sum", "String", "HexString"}

(***************************************************************************)
(* Properties of the helper functions (SpecFn).                            *)
(***************************************************************************)
\* the last call was Validate, handed the digest Sum returned for a salt
\* the caller supplied
ValidatedHeld ==
    /\ res.op = "Validate"
    /\ held.has
    /\ ~held.salt.isNil
    /\ res.arg2.b = held.sum

\* C1: round trip.  For every plaintext p and caller-supplied salt s of
\* one byte or more, Sum(p, s) succeeds, and Validate(Sum(p, s), p)
\* returns true and no error.
C1_RoundTrip ==
    /\ (res.op = "PkgSum" /\ ~res.arg2.isNil /\ GoLen(res.arg2) >= 1)
          => (res.err = NoErr /\ ~res.isNil /\ held.has /\ held.sum = res.out)
    /\ (ValidatedHeld /\ res.arg = held.data)
          => (res.ok /\ res.err = NoErr)

C1_Witness ==
    /\ ValidatedHeld
    /\ GoLen(held.salt) >= 1
    /\ res.arg = held.data
    /\ held.data # <<>>
    /\ res.ok

\* C2: negative validation.  For every caller-supplied salt s of one byte
\* or more and plaintexts p1 # p2, Validate(Sum(p1, s), p2) returns false
\* and no error.
C2_Mismatch ==
    (ValidatedHeld /\ res.arg # held.data) => (~res.ok /\ res.err = NoErr)

C2_Witness ==
    /\ ValidatedHeld
    /\ GoLen(held.salt) >= 1
    /\ res.arg # held.data
    /\ Len(res.arg) = Len(held.data)
    /\ ~res.ok
    /\ res.err = NoErr

\* C3: the errors of Validate are exactly the two length errors.  Validate
\* returns (false, "slice too short for a SHA-1 hash") iff the combined
\* digest has fewer than 20 bytes, (false, "slice too short to be a SSHA1
\* hash") iff it has exactly 20, and no error iff it has more: the error
\* of its NewWithSalt call is never returned.
C3_ValidateErrors ==
    res.op = "Validate" =>
        LET length == GoLen(res.arg2)
        IN  /\ (res.err = errMsgSliceTooShortSha1) <=> (length < Sha1Size)
            /\ (res.err = errMsgSliceTooShortSsha1) <=> (length = Sha1Size)
            /\ (res.err = NoErr) <=> (length > Sha1Size)
            /\ res.err # NoErr => ~res.ok

C3_Witness ==
    /\ res.op = "Validate"
    /\ held.has
    /\ GoLen(res.arg2) = Sha1Size
    /\ res.arg2.b = SubSeq(held.sum, 1, Sha1Size)
    /\ res.err = errMsgSliceTooShortSsha1
    /\ ~res.ok

\* C6 as claimed: called with an empty or unset salt while the random
\* source works, Sum returns without error a combined digest of 40 bytes
\* that ends with the generated salt.
C6_EmptyOrUnsetSalt ==
    (res.op = "PkgSum" /\ GoLen(res.arg2) = 0 /\ ~inp.rnd.fail)
        => /\ res.err = NoErr
           /\ Len(res.out) = Sha1Size + DefaultNumSaltBytes
           /\ SubSeq(res.out, Sha1Size + 1, Len(res.out))
                 = randRead(DefaultNumSaltBytes, inp.rnd).bytes

\* C6, amended: called with a nil (unset) salt while the random source
\* works, Sum returns without error a combined digest of 40 bytes whose
\* last 20 bytes are the generated salt, and Validate accepts it for the
\* plaintext; called with an empty salt that is not nil, Sum fails with
\* "invalid salt length, must be at least 1 byte"; called with a salt of
\* one byte or more, it uses that salt.
C6_UnsetSalt ==
    /\ (res.op = "PkgSum" /\ res.arg2.isNil /\ ~inp.rnd.fail)
          => /\ res.err = NoErr /\ ~res.isNil
             /\ Len(res.out) = Sha1Size + DefaultNumSaltBytes
             /\ SubSeq(res.out, Sha1Size + 1, Len(res.out))
                   = randRead(DefaultNumSaltBytes, inp.rnd).bytes
             /\ held.has /\ held.sum = res.out
    /\ (res.op = "PkgSum" /\ res.arg2.isNil /\ inp.rnd.fail)
          => (res.err = errRandRead /\ res.isNil)
    /\ (res.op = "PkgSum" /\ ~res.arg2.isNil /\ GoLen(res.arg2) = 0)
          => (res.err = errMsgSaltTooShort /\ res.isNil)
    /\ (res.op = "PkgSum" /\ ~res.arg2.isNil /\ GoLen(res.arg2) >= 1)
          => /\ res.err = NoErr
             /\ Len(res.out) = Sha1Size + GoLen(res.arg2)
             /\ SubSeq(res.out, Sha1Size + 1, Len(res.out)) = res.arg2.b
    /\ (res.op = "Validate" /\ held.has /\ held.salt.isNil
        /\ res.arg2.b = held.sum /\ res.arg = held.data)
          => (res.ok /\ res.err = NoErr)

C6_Witness ==
    /\ res.op = "Validate"
    /\ held.has
    /\ held.salt.isNil
    /\ Len(held.sum) = Sha1Size + DefaultNumSaltBytes
    /\ res.arg2.b = held.sum
    /\ res.arg = held.data
    /\ res.ok

(***************************************************************************)
(* Properties of everything that makes an instance (SpecNew).              *)
(***************************************************************************)
\* C4: salts of length zero are always rejected.  Sum with a supplied salt
\* of length 0, NewWithSalt with a salt of length 0 and NewForSaltSize
\* with a size below 1 each fail with "invalid salt length, must be at
\* least 1 byte" and return no digest and no instance, so every instance
\* there is, the caller's or the one Sum made, has a salt of one byte or
\* more.
C4_ZeroSaltRejected ==
    /\ (res.op = "PkgSum" /\ ~res.arg2.isNil /\ GoLen(res.arg2) = 0)
          => (res.err = errMsgSaltTooShort /\ res.isNil /\ res.out = <<>>)
    /\ (res.op = "NewWithSalt" /\ GoLen(res.arg2) = 0)
          => (res.err = errMsgSaltTooShort /\ res.isNil /\ ~d.live)
    /\ (res.op = "NewForSaltSize" /\ res.n < 1)
          => (res.err = errMsgSaltTooShort /\ res.isNil /\ ~d.live)
    /\ d.live => Len(d.salt) >= 1
    /\ held.has => Len(held.used) >= 1

C4_Witness ==
    /\ res.op = "PkgSum"
    /\ ~res.arg2.isNil
    /\ GoLen(res.arg2) = 0
    /\ res.err = errMsgSaltTooShort
    /\ d.live

(***************************************************************************)
(* Properties of one instance (Spec).                                      *)
(***************************************************************************)
\* C5: the layout of the combined digest.  For an instance with salt s and
\* accumulated bytes a, Sum(nil) returns Size() = 20 + len(s) bytes: the
\* SHA-1 of a followed by s, then s itself.
C5_Layout ==
    /\ (res.op = "Sum" /\ res.arg = <<>>)
          => /\ Len(res.out) = digestSize(d)
             /\ SubSeq(res.out, 1, Sha1Size)
                   = sha1Sum(SliceBytes(d.internal) \o d.salt)
             /\ SubSeq(res.out, Sha1Size + 1, Len(res.out)) = d.salt
    /\ res.op = "Size" => res.n = Sha1Size + Len(d.salt)

C5_Witness ==
    /\ res.op = "Sum"
    /\ res.arg = <<>>
    /\ d.internal.len = MaxAcc
    /\ Len(d.salt) = 2
    /\ d.salt[1] # d.salt[2]

\* C7: reads do not mutate and are deterministic.  Sum, String and
\* HexString leave the accumulated bytes and the salt as they are; two
\* reads in a row return the same bytes; and a Write after a read gives
\* the digest it would have given without the read.
C7_ReadsDoNotMutate ==
    [][/\ res'.op \in Reads
             => /\ d'.live = d.live
                /\ d'.salt = d.salt
                /\ d'.internal.len = d.internal.len
                /\ SliceBytes(d'.internal) = SliceBytes(d.internal)
       /\ (res.op \in Reads /\ res'.op = res.op /\ res'.arg = res.arg)
             => res'.out = res.out
       /\ (res.op = "Sum" /\ res.arg = <<>> /\ res'.op = "HexString")
             => res'.out = hexEncodeToString(res.out)
       /\ (res.op \in Reads /\ res'.op = "Write")
             => SumNow(d') = Combined(written \o res'.arg, d.salt)
      ]_vars

\* a read has left the salt in the spare capacity behind the accumulated
\* bytes
C7_Witness ==
    /\ res.op \in Reads
    /\ d.live
    /\ d.internal.len >= 1
    /\ Cap(d.internal) >= d.internal.len + Len(d.salt)
    /\ SubSeq(d.internal.arr, d.internal.len + 1,
              d.internal.len + Len(d.salt)) = d.salt

\* C8: Reset.  Reset empties the accumulator and leaves the salt and Size()
\* as they were; an instance that was written to, Reset and written B
\* gives the combined digest of a new instance with the same salt that was
\* only written B.
C8_Reset ==
    /\ res.op = "Reset" => (d.live /\ SliceBytes(d.internal) = <<>>)
    /\ d.live => (d.salt = salt0 /\ digestSize(d) = Sha1Size + Len(salt0))
    /\ (d.live /\ dirty) => SumNow(d) = SumNow(WrittenOnce(written, salt0))

C8_Witness ==
    /\ d.live
    /\ dirty
    /\ written # <<>>
    /\ res.op = "Sum"
    /\ res.arg = <<>>
    /\ res.out = SumNow(WrittenOnce(written, salt0))

\* C9: Write appends all of its argument, in order.  Write(p) returns
\* (len(p), nil); the accumulator is empty in a new instance and always
\* holds the bytes written since the last Reset, in order, so the combined
\* digest is that of one Write of their concatenation.
C9_WriteAppends ==
    /\ res.op = "Write" => (res.n = Len(res.arg) /\ res.err = NoErr)
    /\ d.live
          => /\ d.internal.len = Len(written)
             /\ SliceBytes(d.internal) = written
             /\ SumNow(d) = SumNow(WrittenOnce(written, d.salt))
             /\ SumNow(d) = Combined(written, d.salt)

\* the last of two or more Write calls wrote one byte
C9_Witness ==
    /\ d.live
    /\ res.op = "Write"
    /\ Len(res.arg) = 1
    /\ Len(written) = 2
    /\ written[1] # written[2]

\* C10: the encodings agree.  HexString() is the lower-case hexadecimal
\* text, and String() is "{SSHA}" followed by the padded standard base64
\* text, of the combined digest Sum(nil) returns: both decode to it.
C10_Encodings ==
    /\ res.op = "HexString"
          => /\ Len(res.out) = 2 * digestSize(d)
             /\ \A j \in 1..Len(res.out) :
                   \E k \in 1..Len(hextable) : res.out[j] = hextable[k]
             /\ HexDecode(res.out) = SumNow(d)
    /\ res.op = "String"
          => LET n == Len(outputFmtPrefix)
                 text == SubSeq(res.out, n + 1, Len(res.out))
             IN  /\ SubSeq(res.out, 1, n) = outputFmtPrefix
                 /\ Len(text) = 4 * ((digestSize(d) + 2) \div 3)
                 /\ \A j \in 1..Len(text) :
                       \/ \E k \in 1..Len(encodeStd) : text[j] = encodeStd[k]
                       \/ /\ text[j] = StdPadding
                          /\ j > Len(text) - ((3 - (digestSize(d) % 3)) % 3)
                 /\ Base64Decode(text) = SumNow(d)

C10_Witness ==
    /\ res.op = "String"
    /\ written # <<>>
    /\ digestSize(d) % 3 = 1
    /\ res.out[Len(res.out)] = StdPadding
    /\ res.out[Len(res.out) - 1] = StdPadding

=============================================================================
